---- MODULE Spec2Model ----
(***************************************************************************)
(* Session-based shopping cart of tonygram-shop (core/cart.py) and the     *)
(* request handlers that drive it (core/views.py).                         *)
(*                                                                         *)
(* Python values are modelled as follows.                                  *)
(*   - a str is a sequence of one-character strings;                       *)
(*   - a dict with str keys is a record [ord, val]: ord is the insertion   *)
(*     order of the keys, val the mapping;                                 *)
(*   - a cart line (the inner dict) is a function whose domain is a subset *)
(*     of {"quantity", "price", "product"};                                *)
(*   - None, a stored str, a Decimal and a Product instance are tagged     *)
(*     records.                                                            *)
(* self.cart and session[CART_SESSION_ID] may be one and the same dict     *)
(* object; the flag "shared" of a cart object records that aliasing.       *)
(***************************************************************************)
EXTENDS Integers, Sequences, FiniteSets, TLC

VARIABLES
    catalog,    \* Product table: id -> [price, available]
    session,    \* request.session: a dict over a subset of {"cart", "order_id"}
    modified,   \* request.session.modified
    cart,       \* self.cart of the current Cart object
    shared,     \* TRUE iff self.cart is the very dict held by session["cart"]
    db,         \* Order / OrderItem tables and the outbox of send_mail
    lastOp,     \* the operation performed last, with its arguments and result
    pre,        \* cart, session and modified as they were before lastOp
    hist        \* history of the add calls made on the current Cart object

vars == <<catalog, session, modified, cart, shared, db, lastOp, pre, hist>>

----------------------------------------------------------------------------
(* Bounds of the model *)

MaxQty == 2

ProductIds == {1, 2}
OrderIds == {1}
Qtys == 0..MaxQty

----------------------------------------------------------------------------
(* Python values *)

None == [type |-> "None"]
Str(s) == [type |-> "str", s |-> s]
Fin(u, k) == [type |-> "Decimal", kind |-> "fin", unscaled |-> u, scale |-> k]
Inf(sg) == [type |-> "Decimal", kind |-> "inf", sign |-> sg]
Ok(v) == [ok |-> TRUE, val |-> v]
Raise(e) == [ok |-> FALSE, exc |-> e]

Digits == <<"0", "1", "2", "3", "4", "5", "6", "7", "8", "9">>
IsDigit(c) == \E i \in 1..10 : Digits[i] = c
DigitOf(c) == (CHOOSE i \in 1..10 : Digits[i] = c) - 1

RECURSIVE Pow10(_)
Pow10(k) == IF k = 0 THEN 1 ELSE 10 * Pow10(k - 1)

RECURSIVE NatStr(_)
NatStr(n) == IF n < 10 THEN <<Digits[n + 1]>>
             ELSE Append(NatStr(n \div 10), Digits[(n % 10) + 1])

RECURSIVE FracStr(_, _)
FracStr(f, k) == IF k = 0 THEN <<>>
                 ELSE Append(FracStr(f \div 10, k - 1), Digits[(f % 10) + 1])

RECURSIVE DigitsVal(_)
DigitsVal(s) == IF Len(s) = 0 THEN 0
                ELSE 10 * DigitsVal(SubSeq(s, 1, Len(s) - 1)) + DigitOf(s[Len(s)])

Abs(n) == IF n < 0 THEN -n ELSE n

\* str(int) for a primary key
IntStr(n) == IF n < 0 THEN <<"-">> \o NatStr(-n) ELSE NatStr(n)

\* str(Decimal) for a finite Decimal with a non-negative scale
DecimalStr(d) ==
    LET a == Abs(d.unscaled)
        p == Pow10(d.scale)
    IN  (IF d.unscaled < 0 THEN <<"-">> ELSE <<>>)
        \o NatStr(a \div p)
        \o (IF d.scale > 0 THEN <<".">> \o FracStr(a % p, d.scale) ELSE <<>>)

StrInfinity == <<"I", "n", "f", "i", "n", "i", "t", "y">>
StrInf == <<"I", "n", "f">>

\* Decimal(x): x a stored value. Accepted here are an optional sign followed by
\* digits with at most one point, and the infinities; any other str raises
\* InvalidOperation, and a value that is no str raises TypeError.
Decimal(x) ==
    IF x.type # "str" THEN Raise("TypeError")
    ELSE
    LET s == x.s
        signed == Len(s) > 0 /\ s[1] \in {"-", "+"}
        sg == IF Len(s) > 0 /\ s[1] = "-" THEN -1 ELSE 1
        body == IF signed THEN SubSeq(s, 2, Len(s)) ELSE s
        dots == {i \in 1..Len(body) : body[i] = "."}
        digs == SelectSeq(body, IsDigit)
        wellformed == /\ Cardinality(dots) <= 1
                      /\ Len(digs) >= 1
                      /\ Len(digs) + Cardinality(dots) = Len(body)
        scale == IF dots = {} THEN 0 ELSE Len(body) - (CHOOSE i \in dots : TRUE)
    IN  IF body \in {StrInfinity, StrInf} THEN Ok(Inf(sg))
        ELSE IF wellformed THEN Ok(Fin(sg * DigitsVal(digs), scale))
        ELSE Raise("InvalidOperation")

Max(a, b) == IF a >= b THEN a ELSE b

\* Decimal * int
DecMulInt(d, n) ==
    IF d.kind = "inf"
    THEN IF n = 0 THEN Raise("InvalidOperation")
         ELSE Ok(Inf(IF n < 0 THEN -d.sign ELSE d.sign))
    ELSE Ok(Fin(d.unscaled * n, d.scale))

\* Decimal + Decimal
DecAdd(a, b) ==
    IF a.kind = "inf" /\ b.kind = "inf"
    THEN IF a.sign = b.sign THEN Ok(a) ELSE Raise("InvalidOperation")
    ELSE IF a.kind = "inf" THEN Ok(a)
    ELSE IF b.kind = "inf" THEN Ok(b)
    ELSE LET k == Max(a.scale, b.scale)
         IN  Ok(Fin(a.unscaled * Pow10(k - a.scale) + b.unscaled * Pow10(k - b.scale), k))

\* Decimal == Decimal (numerical equality)
DecEq(a, b) ==
    IF a.kind = "inf" \/ b.kind = "inf"
    THEN a.kind = b.kind /\ a.sign = b.sign
    ELSE a.unscaled * Pow10(b.scale) = b.unscaled * Pow10(a.scale)

DecZero == Fin(0, 2)

----------------------------------------------------------------------------
(* dict *)

EmptyDict == [ord |-> <<>>, val |-> [k \in {} |-> None]]
Keys(d) == DOMAIN d.val
Has(d, k) == k \in DOMAIN d.val
DictSet(d, k, v) ==
    IF Has(d, k) THEN [d EXCEPT !.val[k] = v]
    ELSE [ord |-> Append(d.ord, k),
          val |-> [x \in DOMAIN d.val \cup {k} |-> IF x = k THEN v ELSE d.val[x]]]
DictDel(d, k) ==
    [ord |-> SelectSeq(d.ord, LAMBDA x : x # k),
     val |-> [x \in DOMAIN d.val \ {k} |-> d.val[x]]]
\* d.values(), in insertion order
Values(d) == [i \in 1..Len(d.ord) |-> d.val[d.ord[i]]]

\* item.get(f, default) and item[f] = v on a line
Get(item, f, default) == IF f \in DOMAIN item THEN item[f] ELSE default
SetField(item, f, v) ==
    [x \in DOMAIN item \cup {f} |-> IF x = f THEN v ELSE item[x]]

----------------------------------------------------------------------------
(* Catalog (Product table) *)

Price1 == Fin(1999, 2)
Price2 == Fin(500, 2)
Prices == {Price1, Price2}

\* a Product instance as a query returns it
ProductObj(cat, i) ==
    [type |-> "Product", id |-> i, price |-> cat[i].price]

\* Product.objects.filter(id__in=product_ids, available=True)
AvailableIn(cat, product_ids) ==
    {i \in DOMAIN cat : IntStr(i) \in product_ids /\ cat[i].available}

----------------------------------------------------------------------------
(* class Cart. A cart object and the session it works on are passed as the  *)
(* record w = [session, modified, cart, shared].                           *)

CART_SESSION_ID == "cart"

DelField(d, f) == [x \in DOMAIN d \ {f} |-> d[x]]

\* Python truth value of session.get(CART_SESSION_ID)
Truthy(c) == c # None /\ Len(c.ord) > 0

\* Cart.__init__
Cart_init(sess, mod) ==
    LET c == Get(sess, CART_SESSION_ID, None)
    IN  IF Truthy(c)
        THEN [session |-> sess, modified |-> mod, cart |-> c, shared |-> TRUE]
        ELSE [session |-> sess, modified |-> mod, cart |-> EmptyDict, shared |-> FALSE]

\* An in-place change of self.cart is a change of session[CART_SESSION_ID]
\* too when the two are the same object.
InPlace(w, c) ==
    [w EXCEPT !.cart = c,
              !.session = IF w.shared THEN SetField(w.session, CART_SESSION_ID, c)
                          ELSE w.session]

\* Cart.save
Cart_save(w) ==
    [w EXCEPT !.session = SetField(w.session, CART_SESSION_ID, w.cart),
              !.shared = TRUE,
              !.modified = TRUE]

\* Cart.add with the override branch taken whatever the flag says
Cart_add_overwrites(w, product, quantity, override_quantity) ==
    LET product_id == IntStr(product.id)
        c1 == IF ~Has(w.cart, product_id)
              THEN DictSet(w.cart, product_id,
                           [quantity |-> 0, price |-> Str(DecimalStr(product.price))])
              ELSE w.cart
        c2 == DictSet(c1, product_id, SetField(c1.val[product_id], "quantity", quantity))
    IN  Cart_save(InPlace(w, c2))

\* Cart.add with the accumulate branch taken whatever the flag says
Cart_add_accumulates(w, product, quantity, override_quantity) ==
    LET product_id == IntStr(product.id)
        c1 == IF ~Has(w.cart, product_id)
              THEN DictSet(w.cart, product_id,
                           [quantity |-> 0, price |-> Str(DecimalStr(product.price))])
              ELSE w.cart
        line == c1.val[product_id]
        c2 == DictSet(c1, product_id,
                      SetField(line, "quantity", line["quantity"] + quantity))
    IN  Cart_save(InPlace(w, c2))

\* Cart.add writing the current catalog price on every call
Cart_add_refreshes_price(w, product, quantity, override_quantity) ==
    LET product_id == IntStr(product.id)
        old == IF Has(w.cart, product_id) THEN w.cart.val[product_id]["quantity"] ELSE 0
        c2 == DictSet(w.cart, product_id,
                      SetField(SetField(IF Has(w.cart, product_id)
                                        THEN w.cart.val[product_id]
                                        ELSE [quantity |-> 0],
                                        "price", Str(DecimalStr(product.price))),
                               "quantity",
                               IF override_quantity THEN quantity ELSE old + quantity))
    IN  Cart_save(InPlace(w, c2))

\* Cart.add; every line of the carts modelled has a quantity, so the +=
\* of line 79 finds its operand.
Cart_add(w, product, quantity, override_quantity) ==
    LET product_id == IntStr(product.id)
        c1 == IF ~Has(w.cart, product_id)
              THEN DictSet(w.cart, product_id,
                           [quantity |-> 0, price |-> Str(DecimalStr(product.price))])
              ELSE w.cart
        line == c1.val[product_id]
        c2 == IF override_quantity
              THEN DictSet(c1, product_id, SetField(line, "quantity", quantity))
              ELSE DictSet(c1, product_id,
                           SetField(line, "quantity", line["quantity"] + quantity))
    IN  Cart_save(InPlace(w, c2))

\* Cart.remove saving whether or not the product has a line
Cart_remove_always_saves(w, product) ==
    LET product_id == IntStr(product.id)
    IN  Cart_save(InPlace(w, DictDel(w.cart, product_id)))

\* Cart.remove
Cart_remove(w, product) ==
    LET product_id == IntStr(product.id)
    IN  IF Has(w.cart, product_id)
        THEN Cart_save(InPlace(w, DictDel(w.cart, product_id)))
        ELSE w

\* Cart.clear: the session key goes, self.cart is not touched.
Cart_clear(w) ==
    IF CART_SESSION_ID \in DOMAIN w.session
    THEN [w EXCEPT !.session = DelField(w.session, CART_SESSION_ID),
                   !.shared = FALSE,
                   !.modified = TRUE]
    ELSE w

\* Cart.__len__
RECURSIVE SumQuantity(_)
SumQuantity(vals) ==
    IF Len(vals) = 0 THEN 0
    ELSE SumQuantity(SubSeq(vals, 1, Len(vals) - 1)) + Get(vals[Len(vals)], "quantity", 0)
Cart_len(w) == SumQuantity(Values(w.cart))

\* item['price'] then Decimal(...), as in both try blocks
ItemPrice(item) ==
    IF "price" \notin DOMAIN item THEN Raise("KeyError") ELSE Decimal(item["price"])

\* Cart.get_total_price: a line whose price or product fails is skipped.
RECURSIVE TotalOver(_)
TotalOver(vals) ==
    IF Len(vals) = 0 THEN DecZero
    ELSE LET total == TotalOver(SubSeq(vals, 1, Len(vals) - 1))
             item == vals[Len(vals)]
             price == ItemPrice(item)
             prod == IF price.ok THEN DecMulInt(price.val, Get(item, "quantity", 0))
                     ELSE price
             next == IF prod.ok THEN DecAdd(total, prod.val) ELSE prod
         IN  IF next.ok THEN next.val ELSE total
Cart_get_total_price(w) == TotalOver(Values(w.cart))

\* The body of the second loop of Cart.__iter__ for one line: the item it
\* yields, or the exception the multiplication of line 49 raises.
YieldItem(item) ==
    LET parsed == ItemPrice(item)
        price == IF parsed.ok THEN parsed.val ELSE DecZero
        total_price == DecMulInt(price, Get(item, "quantity", 0))
    IN  IF total_price.ok
        THEN Ok([product |-> Get(item, "product", None),
                 price |-> price,
                 quantity |-> Get(item, "quantity", 0),
                 total_price |-> total_price.val])
        ELSE total_price

\* The items the generator yields before it ends or raises.
RECURSIVE YieldAll(_)
YieldAll(vals) ==
    IF Len(vals) = 0 THEN [items |-> <<>>, exc |-> "none"]
    ELSE LET before == YieldAll(SubSeq(vals, 1, Len(vals) - 1))
             y == YieldItem(vals[Len(vals)])
         IN  IF before.exc # "none" THEN before
             ELSE IF y.ok THEN [items |-> Append(before.items, y.val), exc |-> "none"]
             ELSE [items |-> before.items, exc |-> y.exc]

\* cart_copy after the first loop of Cart.__iter__: the product is set on
\* the line of every product the query returned.
AttachProducts(cart_copy, cat) ==
    LET products == AvailableIn(cat, Keys(cart_copy))
    IN  [cart_copy EXCEPT !.val =
            [k \in DOMAIN cart_copy.val |->
                IF \E i \in products : IntStr(i) = k
                THEN SetField(cart_copy.val[k], "product",
                              ProductObj(cat, CHOOSE i \in products : IntStr(i) = k))
                ELSE cart_copy.val[k]]]

\* self.cart.copy() is a shallow copy: cart_copy is a new outer dict whose
\* values are the line objects of self.cart themselves. What the first loop
\* writes into a line of cart_copy is therefore written into self.cart.
SelfCartAfterCopyWrites(self_cart, cart_copy) ==
    [ord |-> self_cart.ord,
     val |-> [k \in DOMAIN self_cart.val |-> cart_copy.val[k]]]

\* Cart.__iter__, run to its end: the cart object afterwards and what was
\* yielded.
Cart_iter(w, cat) ==
    LET cart_copy == AttachProducts(w.cart, cat)
        y == YieldAll(Values(cart_copy))
    IN  [w |-> InPlace(w, SelfCartAfterCopyWrites(w.cart, cart_copy)),
         items |-> y.items,
         exc |-> y.exc]

World == [session |-> session, modified |-> modified, cart |-> cart, shared |-> shared]
Pre == [cart |-> cart, session |-> session, modified |-> modified, db |-> db]

SetWorldNow(w) ==
    /\ modified = w.modified
    /\ cart = w.cart
    /\ shared = w.shared

SetWorld(w) ==
    /\ session' = w.session
    /\ modified' = w.modified
    /\ cart' = w.cart
    /\ shared' = w.shared

----------------------------------------------------------------------------
(* The Cart operations called one after another on a session, while the    *)
(* catalog is edited in the admin.                                         *)

EmptyDb == [orders |-> <<>>, items |-> <<>>, mails |-> <<>>]

\* hist.first[k] is the catalog price of the product at the add call that
\* inserted line k; hist.sum is the sum of the quantities passed to the add
\* calls made so far, and hist.addsOnly tells that the Cart object started
\* empty and only add calls with override_quantity=False were made on it.
Restrict(f, S) == [x \in DOMAIN f \cap S |-> f[x]]
KeepFirst == [addsOnly |-> FALSE, sum |-> 0, first |-> hist.first]

\* the quantity a line of the model may hold
InRange(n) == -MaxQty <= n /\ n <= MaxQty

Init ==
    /\ catalog = [i \in ProductIds |-> [price |-> Price1, available |-> TRUE]]
    /\ session = [k \in {} |-> None]
    /\ modified = FALSE
    /\ cart = EmptyDict
    /\ shared = FALSE
    /\ db = EmptyDb
    /\ lastOp = [op |-> "init"]
    /\ pre = [cart |-> EmptyDict, session |-> [k \in {} |-> None], modified |-> FALSE,
              db |-> EmptyDb]
    /\ hist = [addsOnly |-> TRUE, sum |-> 0, first |-> [k \in {} |-> None]]

\* Cart(request) on the session as it is: another Cart object
NewCart ==
    /\ SetWorld(Cart_init(session, modified))
    /\ lastOp' = [op |-> "init"]
    /\ pre' = Pre
    /\ hist' = [addsOnly |-> ~Truthy(Get(session, CART_SESSION_ID, None)),
                sum |-> 0,
                first |-> Restrict(hist.first, Keys(cart'))]
    /\ UNCHANGED <<catalog, db>>

Add(i, q, ov) ==
    LET w == Cart_add(World, ProductObj(catalog, i), q, ov)
    IN  /\ InRange(w.cart.val[IntStr(i)]["quantity"])
        /\ SetWorld(w)
        /\ lastOp' = [op |-> "add", id |-> i, quantity |-> q, override |-> ov,
                      had |-> Has(cart, IntStr(i))]
        /\ pre' = Pre
        /\ hist' = [addsOnly |-> hist.addsOnly /\ ~ov,
                    sum |-> IF hist.addsOnly /\ ~ov THEN hist.sum + q ELSE 0,
                    first |-> IF Has(cart, IntStr(i)) THEN hist.first
                              ELSE SetField(hist.first, IntStr(i), catalog[i].price)]
        /\ UNCHANGED <<catalog, db>>

Remove(i) ==
    /\ SetWorld(Cart_remove(World, ProductObj(catalog, i)))
    /\ lastOp' = [op |-> "remove", id |-> i]
    /\ pre' = Pre
    /\ hist' = [KeepFirst EXCEPT !.first = DelField(@, IntStr(i))]
    /\ UNCHANGED <<catalog, db>>

Clear ==
    /\ SetWorld(Cart_clear(World))
    /\ lastOp' = [op |-> "clear"]
    /\ pre' = Pre
    /\ hist' = KeepFirst
    /\ UNCHANGED <<catalog, db>>

Iterate ==
    LET r == Cart_iter(World, catalog)
    IN  /\ SetWorld(r.w)
        /\ lastOp' = [op |-> "iterate", items |-> r.items, exc |-> r.exc,
                      before |-> IF lastOp.op = "iterate" THEN [op |-> "iterate"] ELSE lastOp]
        /\ pre' = Pre
        /\ hist' = KeepFirst
        /\ UNCHANGED <<catalog, db>>

\* ProductAdmin.list_editable: price and available are edited in the admin
SetPrice(i, p) ==
    /\ catalog[i].price # p
    /\ catalog' = [catalog EXCEPT ![i].price = p]
    /\ lastOp' = [op |-> "admin"]
    /\ UNCHANGED <<session, modified, cart, shared, db, pre, hist>>

SetAvailable(i, b) ==
    /\ catalog[i].available # b
    /\ catalog' = [catalog EXCEPT ![i].available = b]
    /\ lastOp' = [op |-> "admin"]
    /\ UNCHANGED <<session, modified, cart, shared, db, pre, hist>>

Next ==
    \/ NewCart
    \/ \E i \in ProductIds, q \in Qtys, ov \in BOOLEAN : Add(i, q, ov)
    \/ \E i \in ProductIds : Remove(i)
    \/ Clear
    \/ Iterate
    \/ \E i \in ProductIds, b \in BOOLEAN : SetAvailable(i, b)

Spec == Init /\ [][Next]_vars

\* The same operations while the price of a product, not availability, is
\* edited.
RepricedIds == {1}
NextPrice ==
    \/ NewCart
    \/ \E i \in ProductIds, q \in Qtys, ov \in BOOLEAN : Add(i, q, ov)
    \/ \E i \in ProductIds : Remove(i)
    \/ Clear
    \/ Iterate
    \/ \E i \in RepricedIds, p \in Prices : SetPrice(i, p)

SpecPrice == Init /\ [][NextPrice]_vars

----------------------------------------------------------------------------
(* views.py: the request handlers. Each handler builds its own Cart from   *)
(* the session of the request, whose modified mark starts out False.       *)

\* int(s) for a posted value: an optional sign and digits, else ValueError
ParseInt(s) ==
    LET signed == Len(s) > 0 /\ s[1] \in {"-", "+"}
        body == IF signed THEN SubSeq(s, 2, Len(s)) ELSE s
    IN  IF Len(body) >= 1 /\ \A j \in 1..Len(body) : IsDigit(body[j])
        THEN Ok((IF signed /\ s[1] = "-" THEN -1 ELSE 1) * DigitsVal(body))
        ELSE Raise("ValueError")

\* get_object_or_404(Product, id=product_id, available=True)
FindAvailable(cat, product_id) == product_id \in DOMAIN cat /\ cat[product_id].available
\* get_object_or_404(Product, id=product_id)
FindAny(cat, product_id) == product_id \in DOMAIN cat

\* cart_add: post is request.POST, a dict over a subset of
\* {"quantity", "override_quantity"}
cart_add(sess, cat, product_id, post) ==
    LET c == Cart_init(sess, FALSE)
        quantity == IF "quantity" \in DOMAIN post THEN ParseInt(post["quantity"]) ELSE Ok(1)
        override == Get(post, "override_quantity", None) = Str(<<"t", "r", "u", "e">>)
    IN  IF ~FindAvailable(cat, product_id) THEN [w |-> c, resp |-> "404"]
        ELSE IF ~quantity.ok THEN [w |-> c, resp |-> quantity.exc]
        ELSE [w |-> Cart_add(c, ProductObj(cat, product_id), quantity.val, override),
              resp |-> "redirect cart_detail"]

\* cart_remove
cart_remove(sess, cat, product_id) ==
    LET c == Cart_init(sess, FALSE)
    IN  IF ~FindAny(cat, product_id) THEN [w |-> c, resp |-> "404"]
        ELSE [w |-> Cart_remove(c, ProductObj(cat, product_id)),
              resp |-> "redirect cart_detail"]

(* checkout, step by step. A step takes and returns the record              *)
(* s = [w, db, log, exc, order]: the cart object and session, the tables     *)
(* and outbox, the steps done so far, the exception raised if any, and the  *)
(* id of the order saved.                                                   *)

\* order = form.save()
SaveOrder(s) ==
    LET id == Len(s.db.orders) + 1
    IN  [s EXCEPT !.db.orders = Append(@, [id |-> id]),
                  !.order = id,
                  !.log = Append(@, "order")]

\* OrderItem.objects.create for the items in turn. Whether the product of an
\* order line may be null is decided by models.py: with item_fault the create
\* of a line without product raises, without it the line is stored.
RECURSIVE CreateItems(_, _, _)
CreateItems(s, items, item_fault) ==
    IF Len(items) = 0 THEN s
    ELSE LET before == CreateItems(s, SubSeq(items, 1, Len(items) - 1), item_fault)
             item == items[Len(items)]
         IN  IF before.exc # "none" THEN before
             ELSE IF item_fault /\ item.product = None
             THEN [before EXCEPT !.exc = "IntegrityError"]
             ELSE [before EXCEPT
                      !.db.items = Append(@, [order |-> s.order,
                                              product |-> item.product,
                                              price |-> item.price,
                                              quantity |-> item.quantity]),
                      !.log = Append(@, "line")]

\* for item in cart: OrderItem.objects.create(...)
SaveItems(s, cat, item_fault) ==
    LET it == Cart_iter(s.w, cat)
        created == CreateItems([s EXCEPT !.w = it.w], it.items, item_fault)
    IN  IF created.exc = "none" /\ it.exc # "none"
        THEN [created EXCEPT !.exc = it.exc]
        ELSE created

\* cart.clear()
ClearCart(s) == [s EXCEPT !.w = Cart_clear(s.w), !.log = Append(@, "clear")]

\* send_mail(..., fail_silently=False)
SendMail(s, to, fails) ==
    IF fails THEN [s EXCEPT !.exc = "SMTPException"]
    ELSE [s EXCEPT !.db.mails = Append(@, [to |-> to, order |-> s.order]),
                   !.log = Append(@, "mail " \o to)]

\* request.session['order_id'] = order.id
RecordOrderId(s) ==
    [s EXCEPT !.w.session = SetField(@, "order_id", s.order),
              !.w.modified = TRUE,
              !.log = Append(@, "order_id")]

Then(s, next) == IF s.exc = "none" THEN next ELSE s

----------------------------------------------------------------------------
(* Requests one after another on the session of one visitor. `session` is  *)
(* the session as the next request finds it. A handler that raised leaves   *)
(* either the session it worked on or the session it started from, as the  *)
(* session middleware decides.                                             *)

PostedQuantities == {IntStr(n) : n \in -1..MaxQty} \cup {<<"x">>}
Posts ==
    {[k \in {} |-> None]}
    \cup {[quantity |-> q] : q \in PostedQuantities}
    \cup {[quantity |-> q, override_quantity |-> Str(<<"t", "r", "u", "e">>)] :
            q \in PostedQuantities}
UrlIds == ProductIds \cup {3}
Faults == {"none", "item", "customer", "operator"}

\* The model follows the visitor up to the request that saves the last
\* order the Order table has an id for.
Open == Len(db.orders) + 1 \in OrderIds

ViewsInit == Init

AfterRequest(w, raised) ==
    /\ session' \in (IF raised THEN {w.session, session} ELSE {w.session})
    /\ modified' = w.modified
    /\ cart' = w.cart
    /\ shared' = w.shared

CartAddRequest(product_id, post) ==
    LET r == cart_add(session, catalog, product_id, post)
    IN  /\ Open
        /\ \A k \in Keys(r.w.cart) : r.w.cart.val[k]["quantity"] \in -1..MaxQty
        /\ AfterRequest(r.w, r.resp = "ValueError")
        /\ lastOp' = [op |-> "cart_add", resp |-> r.resp]
        /\ UNCHANGED <<catalog, db, pre, hist>>

CartRemoveRequest(product_id) ==
    LET r == cart_remove(session, catalog, product_id)
    IN  /\ Open
        /\ AfterRequest(r.w, FALSE)
        /\ lastOp' = [op |-> "cart_remove", resp |-> r.resp]
        /\ UNCHANGED <<catalog, db, pre, hist>>

\* What a request of checkout leaves behind: s is the state its last
\* statement left, start the session and tables it found.
Respond(s, method, valid, fault) ==
    /\ AfterRequest(s.w, s.exc # "none")
    /\ db' = s.db
    /\ lastOp' = [op |-> "checkout", method |-> method, valid |-> valid,
                  fault |-> fault, log |-> s.log, exc |-> s.exc,
                  order |-> s.order, session |-> s.w.session,
                  start |-> [session |-> session, db |-> db]]
    /\ UNCHANGED <<catalog, pre, hist>>

\* checkout with clear() moved behind the two send_mail calls
checkout_mails_before_clear(method, valid, fault) ==
    /\ Open
    /\ method = "GET" => ~valid /\ fault = "none"
    /\ \E s0 \in {[w |-> Cart_init(session, FALSE), db |-> db, log |-> <<>>,
                   exc |-> "none", order |-> 0]} :
          IF Cart_len(s0.w) = 0
          THEN Respond([s0 EXCEPT !.log = <<"redirect cart_detail">>], method, valid, fault)
          ELSE IF method = "POST" /\ valid
          THEN \E s1 \in {SaveOrder(s0)} :
               \E s2 \in {SaveItems(s1, catalog, fault = "item")} :
               \E s3 \in {Then(s2, SendMail(s2, "customer", fault = "customer"))} :
               \E s4 \in {Then(s3, SendMail(s3, "operator", fault = "operator"))} :
               \E s5 \in {Then(s4, ClearCart(s4))} :
               \E s6 \in {Then(s5, RecordOrderId(s5))} :
                  Respond(Then(s6, [s6 EXCEPT !.log = Append(@, "redirect checkout_success")]),
                          method, valid, fault)
          ELSE Respond([s0 EXCEPT !.log = <<"render checkout">>], method, valid, fault)

\* checkout: the statements run in sequence, s1 .. s6 being the states they
\* leave one after the other; a statement that raised ends the request.
checkout(method, valid, fault) ==
    /\ Open
    /\ method = "GET" => ~valid /\ fault = "none"
    /\ \E s0 \in {[w |-> Cart_init(session, FALSE), db |-> db, log |-> <<>>,
                   exc |-> "none", order |-> 0]} :
          IF Cart_len(s0.w) = 0
          THEN Respond([s0 EXCEPT !.log = <<"redirect cart_detail">>], method, valid, fault)
          ELSE IF method = "POST" /\ valid
          THEN \E s1 \in {SaveOrder(s0)} :
               \E s2 \in {SaveItems(s1, catalog, fault = "item")} :
               \E s3 \in {Then(s2, ClearCart(s2))} :
               \E s4 \in {Then(s3, SendMail(s3, "customer", fault = "customer"))} :
               \E s5 \in {Then(s4, SendMail(s4, "operator", fault = "operator"))} :
               \E s6 \in {Then(s5, RecordOrderId(s5))} :
                  Respond(Then(s6, [s6 EXCEPT !.log = Append(@, "redirect checkout_success")]),
                          method, valid, fault)
          ELSE Respond([s0 EXCEPT !.log = <<"render checkout">>], method, valid, fault)

EditAvailable(i, b) == Open /\ SetAvailable(i, b)

NextViews ==
    \/ \E i \in UrlIds, post \in Posts : CartAddRequest(i, post)
    \/ \E i \in UrlIds : CartRemoveRequest(i)
    \/ \E method \in {"GET", "POST"}, valid \in BOOLEAN, fault \in Faults :
          checkout(method, valid, fault)
    \/ \E i \in ProductIds, b \in BOOLEAN : EditAvailable(i, b)

SpecViews == ViewsInit /\ [][NextViews]_vars

----------------------------------------------------------------------------
(* A Cart built on a session that already holds a mapping, as an earlier   *)
(* request or an earlier version of the application stored it: a line may  *)
(* lack its price or its quantity, and its price may be None or any str.   *)

NotANumber == <<"n", "o", "t", "-", "a", "-", "n", "u", "m", "b", "e", "r">>
StoredPrices == {Str(DecimalStr(Price1)), Str(NotANumber), Str(StrInfinity), None}
StoredQuantities == {0, MaxQty}
StoredLines ==
    {[quantity |-> q, price |-> p] : q \in StoredQuantities, p \in StoredPrices}
    \cup {[quantity |-> q] : q \in StoredQuantities}
    \cup {[price |-> p] : p \in StoredPrices}
StoredCarts ==
    {EmptyDict}
    \cup {DictSet(EmptyDict, IntStr(i), l) : i \in ProductIds, l \in StoredLines}
    \cup {DictSet(DictSet(EmptyDict, IntStr(i), l), IntStr(j), m) :
            i \in ProductIds, j \in ProductIds, l \in StoredLines, m \in StoredLines}

StoredInit ==
    /\ catalog = [i \in ProductIds |-> [price |-> Price1, available |-> TRUE]]
    /\ \E c \in StoredCarts :
          /\ session = [cart |-> c]
          /\ SetWorldNow(Cart_init([cart |-> c], FALSE))
    /\ db = EmptyDb
    /\ lastOp = [op |-> "init"]
    /\ pre = [cart |-> EmptyDict, session |-> [k \in {} |-> None], modified |-> FALSE,
              db |-> EmptyDb]
    /\ hist = [addsOnly |-> FALSE, sum |-> 0, first |-> [k \in {} |-> None]]

NextStored ==
    \/ NewCart
    \/ Iterate
    \/ \E i \in ProductIds, b \in BOOLEAN : SetAvailable(i, b)

SpecStored == StoredInit /\ [][NextStored]_vars

----------------------------------------------------------------------------
(* Properties of the Cart operations *)

IdOf(k) == CHOOSE i \in ProductIds : IntStr(i) = k
AfterIterate == lastOp.op = "iterate"

\* C1: after clear(), length() on that same Cart is 0 and iterate() yields
\* no items.
ClearEmptiesCart ==
    lastOp.op = "clear" =>
        /\ Cart_len(World) = 0
        /\ Cart_iter(World, catalog).items = <<>>

\* C2: the mapping held by the Cart and by the session is the same before and
\* after a complete iteration.
IterateLeavesStoredCart ==
    AfterIterate => cart = pre.cart /\ session = pre.session

\* C4: from an empty cart, after add calls with override_quantity=False only,
\* length() is the sum of the quantities passed.
AddsSumToLength ==
    hist.addsOnly => Cart_len(World) = hist.sum

AddsSumToLengthWitness ==
    /\ hist.addsOnly
    /\ Len(cart.ord) = 2
    /\ \E k \in Keys(cart) : cart.val[k]["quantity"] = 2 /\ lastOp.op = "add"
                             /\ lastOp.quantity = 1 /\ IntStr(lastOp.id) = k

\* C5: add(p, q, override_quantity=True) followed immediately by iterate()
\* yields one item per line, exactly one of them from the line of p, with
\* quantity q (and with product p when p is available).
OverrideThenIterate ==
    (AfterIterate /\ lastOp.before.op = "add" /\ lastOp.before.override) =>
        LET k == IntStr(lastOp.before.id)
        IN  /\ lastOp.exc = "none"
            /\ Len(lastOp.items) = Len(cart.ord)
            /\ Cardinality({j \in 1..Len(cart.ord) : cart.ord[j] = k}) = 1
            /\ \A j \in 1..Len(cart.ord) :
                  cart.ord[j] = k =>
                      /\ lastOp.items[j].quantity = lastOp.before.quantity
                      /\ catalog[lastOp.before.id].available =>
                            lastOp.items[j].product = ProductObj(catalog, lastOp.before.id)

OverrideThenIterateWitness ==
    /\ AfterIterate /\ lastOp.before.op = "add" /\ lastOp.before.override
    /\ lastOp.before.had
    /\ lastOp.before.quantity = 1
    /\ Len(lastOp.items) = 2

\* C6: remove(p) followed by iterate() yields no item from a line of p, remove
\* leaves every other line as it was, and when p has no line it changes
\* neither the mapping of the Cart nor the session nor its modified mark.
RemoveDropsOnlyThatLine ==
    /\ lastOp.op = "remove" =>
          LET k == IntStr(lastOp.id)
          IN  /\ ~Has(cart, k)
              /\ \A j \in 1..Len(cart.ord) : cart.ord[j] # k
              /\ Len(Cart_iter(World, catalog).items) = Len(cart.ord)
              /\ Keys(cart) = Keys(pre.cart) \ {k}
              /\ \A x \in Keys(cart) : cart.val[x] = pre.cart.val[x]
              /\ ~Has(pre.cart, k) =>
                    cart = pre.cart /\ session = pre.session /\ modified = pre.modified
    /\ (AfterIterate /\ lastOp.before.op = "remove") =>
          /\ Len(lastOp.items) = Len(cart.ord)
          /\ \A j \in 1..Len(cart.ord) : cart.ord[j] # IntStr(lastOp.before.id)

RemoveDropsOnlyThatLineWitness ==
    /\ AfterIterate /\ lastOp.before.op = "remove"
    /\ Len(lastOp.items) = 1

\* C7: an add for a product that already has a line, made after the catalog
\* price changed, leaves the stored price of the line equal to the price
\* captured when the line was inserted.
PriceSnapshotKept ==
    /\ \A k \in Keys(cart) :
          k \in DOMAIN hist.first =>
              /\ Decimal(cart.val[k]["price"]).ok
              /\ DecEq(Decimal(cart.val[k]["price"]).val, hist.first[k])
    /\ (lastOp.op = "add" /\ Has(pre.cart, IntStr(lastOp.id))) =>
          cart.val[IntStr(lastOp.id)]["price"] = pre.cart.val[IntStr(lastOp.id)]["price"]

PriceSnapshotKeptWitness ==
    /\ lastOp.op = "add"
    /\ Has(pre.cart, IntStr(lastOp.id))
    /\ ~DecEq(catalog[lastOp.id].price, hist.first[IntStr(lastOp.id)])
    /\ cart.val[IntStr(lastOp.id)]["price"] = Str(<<"1", "9", ".", "9", "9">>)

\* C9: every iterate() yields one item per stored line, and the product of
\* an item is present iff a product with that id is available in the
\* catalog at that call.
IterateReflectsCatalog ==
    AfterIterate =>
        /\ Len(lastOp.items) = Len(cart.ord)
        /\ \A j \in 1..Len(lastOp.items) :
              (lastOp.items[j].product # None) <=> catalog[IdOf(cart.ord[j])].available


\* C8: total_price() is the sum over the stored lines of parsed price times
\* quantity, a line whose price is missing or unparsable counting 0 and being
\* yielded with price 0 and line total 0; iterate() does not raise, and
\* total_price() is the sum of the line totals it yields.
RECURSIVE SumTotals(_)
SumTotals(items) ==
    IF Len(items) = 0 THEN DecZero
    ELSE DecAdd(SumTotals(SubSeq(items, 1, Len(items) - 1)),
                items[Len(items)].total_price).val

TotalMatchesIteration ==
    AfterIterate =>
        /\ lastOp.exc = "none"
        /\ Len(lastOp.items) = Len(cart.ord)
        /\ \A j \in 1..Len(lastOp.items) :
              ~ItemPrice(cart.val[cart.ord[j]]).ok =>
                  /\ DecEq(lastOp.items[j].price, DecZero)
                  /\ DecEq(lastOp.items[j].total_price, DecZero)
        /\ DecEq(Cart_get_total_price(World), SumTotals(lastOp.items))

----------------------------------------------------------------------------
(* Properties of the request handlers *)

StoredCart(sess) == Get(sess, CART_SESSION_ID, EmptyDict)

\* C3: after any sequence of cart_add, cart_remove and checkout requests,
\* every line stored in the cart has quantity >= 0.
QuantityNonNegative ==
    /\ \A k \in Keys(StoredCart(session)) :
          Get(StoredCart(session).val[k], "quantity", 0) >= 0
    /\ \A k \in Keys(cart) : Get(cart.val[k], "quantity", 0) >= 0

IsPrefix(s, u) == Len(s) <= Len(u) /\ SubSeq(u, 1, Len(s)) = s

\* the steps of a checkout that goes through, for a cart of n lines
FullLog(n) ==
    <<"order">> \o [j \in 1..n |-> "line"]
    \o <<"clear", "mail customer", "mail operator", "order_id",
         "redirect checkout_success">>

====
